---- MODULE Spec2Model ----
(***************************************************************************)
(* ImageNetHierarchy (robustness/tools/imagenet_helpers.py): construction  *)
(* of the WordNet tree over the dataset's wnids, its ranked ordering, the  *)
(* greedy superclass selection and the subclass balancer.                  *)
(*                                                                         *)
(* A wnid is a string.  None is the Python None of parent_wnid and of the  *)
(* optional arguments.  Node.name, words.txt and label_map are left out:   *)
(* no decision of the code reads a name.                                   *)
(***************************************************************************)
EXTENDS Integers, Sequences, FiniteSets, TLC

VARIABLES
    pc,               \* where the program is: a phase, or the exception raised
    is_a_file,        \* wordnet.is_a.txt: its lines, as <<parent, child>>
    lineno,           \* lines of is_a_file the loop of line 59 has read
    in_wnids,         \* self.in_wnids: the listing of <ds_path>/train
    tree,             \* self.tree: wnid -> Node
    order,            \* the key order of the dict self.tree
    todo,             \* leaves the loop of line 69 has not taken yet
    node,             \* the node variable of the walk of lines 70-75
    wnid_sorted,      \* self.wnid_sorted
    args,             \* the arguments of the call in progress
    idx,              \* entries of wnid_sorted the loop of line 196 has taken
    superclass_info,  \* the running list of get_superclasses
    superclass_wnid,  \* the list get_subclasses works on
    class_ranges,     \* the list get_subclasses builds
    ret,              \* what get_descendants handed to its caller
    ncalls            \* mutations the caller made through ret

vars == <<pc, is_a_file, lineno, in_wnids, tree, order, todo, node, wnid_sorted,
          args, idx, superclass_info, superclass_wnid, class_ranges, ret, ncalls>>

None == "None"

Range(s) == {s[i] : i \in 1..Len(s)}

\* ---------------------------------------------------------------- inputs

\* A taxonomy with two groups under one entity, three levels deep.
SelFile == <<<<"ent", "dog">>, <<"ent", "bird">>, <<"dog", "pug">>,
             <<"dog", "lab">>, <<"bird", "owl">>, <<"pug", "toy">>>>

\* s without its i-th line.
Without(s, i) == SubSeq(s, 1, i - 1) \o SubSeq(s, i + 1, Len(s))

Reverse(s) == [i \in 1..Len(s) |-> s[Len(s) + 1 - i]]

\* The files of the selection runs: SelFile, SelFile with one line missing,
\* SelFile backwards (the dict is then filled leaves first).
SelFiles == {SelFile, Reverse(SelFile)} \cup {Without(SelFile, i) : i \in 1..Len(SelFile)}

\* Directory entries of the selection runs: "dog" and "pug" are classes that
\* have classes below them.
SelDirs == {"dog", "pug", "lab", "owl", "toy"}

\* A broad shallow group and a deep narrow one.
RankFile == <<<<"dog", "pug">>, <<"dog", "lab">>, <<"veh", "car">>,
              <<"car", "cab">>, <<"cab", "taxi">>>>

RankFiles == {RankFile, Reverse(RankFile)}

RankDirs == {"pug", "lab", "taxi", "cab"}

\* Any file of at most MaxLines lines over three wnids: repeated children,
\* self loops and cycles included.
AnyWnids == {"a", "b", "c"}

MaxLines == 3

AnyFiles == UNION {[1..k -> AnyWnids \X AnyWnids] : k \in 0..MaxLines}

Wnids == {"ent", "dog", "bird", "pug", "lab", "owl", "toy", "veh", "car", "cab", "taxi"}
             \cup AnyWnids

\* imagenet_class_index.json: class number of each wnid (one key per wnid).
wnid_to_num ==
    [w \in Wnids |->
        CASE w = "ent" -> 11 [] w = "dog" -> 7 [] w = "bird" -> 3
          [] w = "pug" -> 0 [] w = "lab" -> 5 [] w = "owl" -> 2
          [] w = "a" -> 4 [] w = "b" -> 1 [] w = "c" -> 9
          [] w = "veh" -> 8 [] w = "car" -> 10 [] w = "cab" -> 12
          [] w = "taxi" -> 6 [] OTHER -> 13]

FileWnids(f) == {f[i][1] : i \in 1..Len(f)} \cup {f[i][2] : i \in 1..Len(f)}

\* ---------------------------------------------------------------- Node

Node(parent_wnid) ==
    [parent_wnid |-> parent_wnid, class_num |-> -1,
     descendant_count |-> 0, descendant_set |-> {}]

\* ------------------------------------------------------- construction

\* get_node on the pair (tree, order): the tree after the lookup.
get_node_tree(t, wnid) ==
    IF wnid \in DOMAIN t THEN t ELSE t @@ (wnid :> Node(None))

get_node_order(t, o, wnid) ==
    IF wnid \in DOMAIN t THEN o ELSE Append(o, wnid)

\* Node.add_child: the child's parent reference is overwritten.
add_child(t, parent_wnid, child_wnid) ==
    [t EXCEPT ![child_wnid].parent_wnid = parent_wnid]

\* One line of wordnet.is_a.txt (lines 59-63).
IngestEdge ==
    /\ pc = "edges"
    /\ lineno < Len(is_a_file)
    /\ LET parent_wnid == is_a_file[lineno + 1][1]
           child_wnid == is_a_file[lineno + 1][2]
           t1 == get_node_tree(tree, parent_wnid)
           o1 == get_node_order(tree, order, parent_wnid)
           t2 == get_node_tree(t1, child_wnid)
           o2 == get_node_order(t1, o1, child_wnid)
       IN /\ tree' = add_child(t2, parent_wnid, child_wnid)
          /\ order' = o2
    /\ lineno' = lineno + 1
    /\ UNCHANGED <<pc, is_a_file, in_wnids, todo, node, wnid_sorted, args, idx,
                   superclass_info, superclass_wnid, class_ranges, ret, ncalls>>

\* End of the file, then the loop of lines 65-67: a listed wnid no line named
\* is a KeyError.
AnnotateLeaves ==
    /\ pc = "edges"
    /\ lineno = Len(is_a_file)
    /\ IF in_wnids \subseteq DOMAIN tree
       THEN /\ tree' = [w \in DOMAIN tree |->
                          IF w \in in_wnids
                          THEN [tree[w] EXCEPT !.descendant_count = 0,
                                               !.class_num = wnid_to_num[w]]
                          ELSE tree[w]]
            /\ todo' = in_wnids
            /\ pc' = "aggregate"
       ELSE /\ pc' = "KeyError:66"
            /\ UNCHANGED <<tree, todo>>
    /\ UNCHANGED <<is_a_file, lineno, in_wnids, order, node, wnid_sorted, args, idx,
                   superclass_info, superclass_wnid, class_ranges, ret, ncalls>>

\* The while loop of line 71 is not running.
WalkDone == IF node = None THEN TRUE ELSE tree[node].parent_wnid = None

\* Lines 69-70: the next leaf, in the listing's (arbitrary) order.
NextLeaf ==
    /\ pc = "aggregate"
    /\ WalkDone
    /\ \E wnid \in todo :
         /\ node' = wnid
         /\ todo' = todo \ {wnid}
    /\ UNCHANGED <<pc, is_a_file, lineno, in_wnids, tree, order, wnid_sorted, args,
                   idx, superclass_info, superclass_wnid, class_ranges, ret, ncalls>>

\* The round without line 73: only the node itself is added.
walk_update_add_only(t, n) ==
    LET p == t[n].parent_wnid
    IN [t EXCEPT ![p].descendant_count = @ + 1, ![p].descendant_set = @ \cup {n}]

\* The tree after one round of the while loop (lines 72-74) at node n.
walk_update(t, n) ==
    LET p == t[n].parent_wnid
        cnt == t[p].descendant_count + 1
        dset == (t[p].descendant_set \cup t[n].descendant_set) \cup {n}
    IN [t EXCEPT ![p].descendant_count = cnt, ![p].descendant_set = dset]

\* A walk that entered a cycle never ends; the model stops it at MaxCount.
MaxCount == 5

\* One round of the while loop of lines 71-75.
WalkStep ==
    /\ pc = "aggregate"
    /\ node # None
    /\ tree[node].parent_wnid # None
    /\ tree[tree[node].parent_wnid].descendant_count < MaxCount
    /\ tree' = walk_update(tree, node)
    /\ node' = tree[node].parent_wnid
    /\ UNCHANGED <<pc, is_a_file, lineno, in_wnids, order, todo, wnid_sorted, args,
                   idx, superclass_info, superclass_wnid, class_ranges, ret, ncalls>>

\* Every node without a class number, whatever its descendant_count.
del_nodes_unclassed(t) == {w \in DOMAIN t : t[w].class_num = -1}

\* Lines 77-78.
del_nodes(t) ==
    {w \in DOMAIN t : t[w].descendant_count = 0 /\ t[w].class_num = -1}

\* Lines 79-80.
prune(t) == [w \in DOMAIN t \ del_nodes(t) |-> t[w]]

\* The key order of the dict after the pops.
prune_order(t, o) == SelectSeq(o, LAMBDA w : w \notin del_nodes(t))

\* Line 82.
post_assert(t) ==
    \A w \in DOMAIN t : t[w].descendant_count > 0 \/ t[w].class_num # -1

RECURSIVE insert_desc(_, _, _)
\* x put into s (sorted by field k, descending) behind every entry whose key
\* is not below its own: one step of a stable sort with reverse=True.
insert_desc(s, x, k) ==
    IF s = <<>> THEN <<x>>
    ELSE IF Head(s)[k] < x[k] THEN <<x>> \o s
    ELSE <<Head(s)>> \o insert_desc(Tail(s), x, k)

RECURSIVE sorted_desc(_, _)
\* sorted(s, key=lambda x: x[k], reverse=True)
sorted_desc(s, k) ==
    IF s = <<>> THEN <<>>
    ELSE insert_desc(sorted_desc(SubSeq(s, 1, Len(s) - 1), k), s[Len(s)], k)

\* The list of line 84-86: (wnid, descendant_count, len(descendant_set)).
rank_items(t, o) ==
    [i \in 1..Len(o) |->
        <<o[i], t[o[i]].descendant_count, Cardinality(t[o[i]].descendant_set)>>]

\* The two sorts the wrong way round: by count first, then by set size.
rank_swapped(t, o) == sorted_desc(sorted_desc(rank_items(t, o), 2), 3)

\* Lines 84-92: the inner sort is on x[2], the outer one on x[1]; tuples are
\* numbered from 1 here, so x[2] is field 3 and x[1] is field 2.
rank(t, o) == sorted_desc(sorted_desc(rank_items(t, o), 3), 2)

\* Lines 77-92, once the loop of line 69 has run out.
FinishConstruction ==
    /\ pc = "aggregate"
    /\ WalkDone
    /\ todo = {}
    /\ tree' = prune(tree)
    /\ order' = prune_order(tree, order)
    /\ node' = None
    /\ IF post_assert(prune(tree))
       THEN /\ wnid_sorted' = rank(prune(tree), prune_order(tree, order))
            /\ pc' = "ready"
       ELSE /\ pc' = "AssertionError:82"
            /\ UNCHANGED wnid_sorted
    /\ UNCHANGED <<is_a_file, lineno, in_wnids, todo, args, idx, superclass_info,
                   superclass_wnid, class_ranges, ret, ncalls>>

NoArgs == [fn |-> "none", n_superclasses |-> 0, ancestor_wnid |-> None,
           lowest_given |-> FALSE, superclass_lowest |-> {}, balanced |-> TRUE]

NoRet == [kind |-> "none", node |-> None, val |-> {}]

\* After self.tree = {} and load_imagenet_info (lines 55-56).
InitWith(files, dirs) ==
    /\ pc = "edges"
    /\ is_a_file \in files
    /\ lineno = 0
    /\ in_wnids \in SUBSET dirs
    /\ tree = << >>
    /\ order = << >>
    /\ todo = {}
    /\ node = None
    /\ wnid_sorted = << >>
    /\ args = NoArgs
    /\ idx = 0
    /\ superclass_info = << >>
    /\ superclass_wnid = << >>
    /\ class_ranges = << >>
    /\ ret = NoRet
    /\ ncalls = 0

\* ------------------------------------------------------- reachability

RECURSIVE parent_walk(_, _, _)
\* The while loop of lines 145-149, at parent.
parent_walk(t, ancestor_wnid, parent) ==
    IF parent = None THEN FALSE
    ELSE IF parent = ancestor_wnid THEN TRUE
    ELSE parent_walk(t, ancestor_wnid, t[parent].parent_wnid)

\* Only the direct parent is looked at.
is_parent(t, ancestor_wnid, child_wnid) == t[child_wnid].parent_wnid = ancestor_wnid

\* Lines 144-149.
is_ancestor(t, ancestor_wnid, child_wnid) ==
    parent_walk(t, ancestor_wnid, t[child_wnid].parent_wnid)

\* Lines 165-166: get_descendants(node_wnid, in_imagenet=True), a new set.
descendants_in_imagenet(t, dirs, node_wnid) ==
    {wnid_to_num[ww] : ww \in {d \in t[node_wnid].descendant_set : d \in dirs}}

\* ---------------------------------------------------------- selection

MaxN == 3

MaxLowest == 2

\* The wnids a caller may pass: those of the file, in the tree or pruned.
ArgWnids == FileWnids(is_a_file)

\* Only parent and child pairs are refused.
lowest_conflict_direct(t, lowest) ==
    \E s1 \in lowest, s2 \in lowest : is_parent(t, s1, s2)

\* Line 193: any([is_ancestor(s1, s2) for s1, s2 in product(lowest, lowest)]).
lowest_conflict(t, lowest) ==
    \E s1 \in lowest, s2 \in lowest : is_ancestor(t, s1, s2)

\* Lines 192-195: the call and its precondition.  The list of line 193 is
\* built in full, so a member that is no key of the tree is a KeyError.
CallGetSuperclasses ==
    /\ pc = "ready"
    /\ \E n \in 0..MaxN, anc \in {None} \cup ArgWnids, given \in BOOLEAN,
          lowest \in {S \in SUBSET ArgWnids : Cardinality(S) <= MaxLowest},
          balanced \in BOOLEAN :
         /\ given \/ lowest = {}
         /\ args' = [fn |-> "get_superclasses", n_superclasses |-> n,
                     ancestor_wnid |-> anc, lowest_given |-> given,
                     superclass_lowest |-> lowest, balanced |-> balanced]
         /\ pc' = IF ~(lowest \subseteq DOMAIN tree) THEN "KeyError:144"
                  ELSE IF lowest_conflict(tree, lowest) THEN "AssertionError:192"
                  ELSE "select"
    /\ idx' = 0
    /\ superclass_info' = << >>
    /\ UNCHANGED <<is_a_file, lineno, in_wnids, tree, order, todo, node, wnid_sorted,
                   superclass_wnid, class_ranges, ret, ncalls>>

\* Line 207: superclass_lowest and w in superclass_lowest.
in_lowest(a, w) == a.lowest_given /\ w \in a.superclass_lowest

\* The flags when nothing is ever evicted.
keep_all(t, a, info, wnid) == [ii \in 1..Len(info) |-> TRUE]

\* The flags when the ancestor is evicted whatever superclass_lowest says.
keep_evict_ancestor(t, a, info, wnid) ==
    [ii \in 1..Len(info) |-> ~is_ancestor(t, info[ii][1], wnid)]

\* Lines 202-210: keep_wnid once the loop of line 205 is over; info holds the
\* new candidate wnid as its last entry.
keep_wnid(t, a, info, wnid) ==
    LET hits == {ii \in 1..Len(info) : is_ancestor(t, info[ii][1], wnid)}
    IN [ii \in 1..Len(info) |->
          ~ \/ (ii \in hits /\ ~in_lowest(a, info[ii][1]))
            \/ (ii = Len(info) /\ \E jj \in hits : in_lowest(a, info[jj][1]))]

\* No entry is popped.
pop_nothing(info, keep) == info

RECURSIVE pop_unkept(_, _)
\* Lines 212-214.
pop_unkept(info, keep) ==
    IF info = << >> THEN << >>
    ELSE LET front == pop_unkept(SubSeq(info, 1, Len(info) - 1),
                                 SubSeq(keep, 1, Len(keep) - 1))
         IN IF keep[Len(keep)] THEN Append(front, info[Len(info)]) ELSE front

\* Line 201.
under_ancestor(t, a, wnid) ==
    IF a.ancestor_wnid = None THEN TRUE ELSE is_ancestor(t, a.ancestor_wnid, wnid)

\* Lines 201-214 for the candidate wnid with ndesc_in.
accept(t, a, info, wnid, ndesc_in) ==
    IF under_ancestor(t, a, wnid)
    THEN LET added == Append(info, <<wnid, ndesc_in>>)
         IN pop_unkept(added, keep_wnid(t, a, added, wnid))
    ELSE info

\* One round of the loop of line 196 that does not break.
SelectStep ==
    /\ pc = "select"
    /\ idx < Len(wnid_sorted)
    /\ Len(superclass_info) # args.n_superclasses
    /\ superclass_info' = accept(tree, args, superclass_info,
                                 wnid_sorted[idx + 1][1], wnid_sorted[idx + 1][2])
    /\ idx' = idx + 1
    /\ UNCHANGED <<pc, is_a_file, lineno, in_wnids, tree, order, todo, node,
                   wnid_sorted, args, superclass_wnid, class_ranges, ret, ncalls>>

\* ------------------------------------------------------------ balancer

\* min() of line 238 taken as 0 on the empty list.
enter_subclasses_default(t, wnids) ==
    IF ~(Range(wnids) \subseteq DOMAIN t) THEN "KeyError:238" ELSE "ranges"

\* Line 238 as the call reaches it: min() of an empty list is a ValueError,
\* a wnid that is no key of the tree a KeyError.
enter_subclasses(t, wnids) ==
    IF ~(Range(wnids) \subseteq DOMAIN t) THEN "KeyError:238"
    ELSE IF wnids = << >> THEN "ValueError:238"
    ELSE "ranges"

\* Line 238.
ndesc_min(t, wnids) ==
    LET counts == {t[w].descendant_count : w \in Range(wnids)}
    IN CHOOSE m \in counts : \A c \in counts : m <= c

\* The cut with ii <= ndesc_min.
balance_one_more(descendants, m, balanced) ==
    IF balanced /\ Cardinality(descendants) > m
    THEN {S \in SUBSET descendants : Cardinality(S) = m + 1}
    ELSE {descendants}

\* Lines 242-243: the sets the cut may give; which ndesc_min members the
\* iteration of a set meets first is not fixed.
balance(descendants, m, balanced) ==
    IF balanced /\ Cardinality(descendants) > m
    THEN {S \in SUBSET descendants : Cardinality(S) = m}
    ELSE {descendants}

\* The loop of line 196 is over (break, or wnid_sorted ran out): lines
\* 216-218, the call of get_subclasses up to its line 239.
SelectEnd ==
    /\ pc = "select"
    /\ idx = Len(wnid_sorted) \/ Len(superclass_info) = args.n_superclasses
    /\ superclass_wnid' = [i \in 1..Len(superclass_info) |-> superclass_info[i][1]]
    /\ class_ranges' = << >>
    /\ pc' = enter_subclasses(tree, superclass_wnid')
    /\ UNCHANGED <<is_a_file, lineno, in_wnids, tree, order, todo, node, wnid_sorted,
                   args, idx, superclass_info, ret, ncalls>>

MaxList == 2

\* get_subclasses called by a user, up to its line 239.
CallGetSubclasses ==
    /\ pc = "ready"
    /\ \E k \in 0..MaxList :
         \E wnids \in [1..k -> ArgWnids], balanced \in BOOLEAN :
           /\ args' = [NoArgs EXCEPT !.fn = "get_subclasses", !.balanced = balanced]
           /\ superclass_wnid' = wnids
           /\ pc' = enter_subclasses(tree, wnids)
    /\ class_ranges' = << >>
    /\ UNCHANGED <<is_a_file, lineno, in_wnids, tree, order, todo, node, wnid_sorted,
                   idx, superclass_info, ret, ncalls>>

\* One round of the loop of lines 240-245.
SubclassStep ==
    /\ pc = "ranges"
    /\ Len(class_ranges) < Len(superclass_wnid)
    /\ \E descendants \in
           balance(descendants_in_imagenet(tree, in_wnids,
                                           superclass_wnid[Len(class_ranges) + 1]),
                   ndesc_min(tree, superclass_wnid), args.balanced) :
         class_ranges' = Append(class_ranges, descendants)
    /\ UNCHANGED <<pc, is_a_file, lineno, in_wnids, tree, order, todo, node,
                   wnid_sorted, args, idx, superclass_info, superclass_wnid, ret,
                   ncalls>>

\* Lines 247-249.
disjoint(ranges) ==
    \A i \in 1..Len(ranges), j \in 1..Len(ranges) :
        i < j => ranges[i] \cap ranges[j] = {}

\* Lines 247-251 (and line 220).
SubclassCheck ==
    /\ pc = "ranges"
    /\ Len(class_ranges) = Len(superclass_wnid)
    /\ pc' = IF disjoint(class_ranges) THEN "returned" ELSE "AssertionError:249"
    /\ UNCHANGED <<is_a_file, lineno, in_wnids, tree, order, todo, node, wnid_sorted,
                   args, idx, superclass_info, superclass_wnid, class_ranges, ret,
                   ncalls>>

\* ---------------------------------------------------- get_descendants

\* Lines 164-168: with in_imagenet a new set is built; without it the value
\* returned is the node's own set object, which ret then refers to.
GetDescendants ==
    /\ pc = "ready"
    /\ \E node_wnid \in DOMAIN tree, in_imagenet \in BOOLEAN :
         ret' = IF in_imagenet
                THEN [kind |-> "set", node |-> None,
                      val |-> descendants_in_imagenet(tree, in_wnids, node_wnid)]
                ELSE [kind |-> "ref", node |-> node_wnid, val |-> {}]
    /\ UNCHANGED <<pc, is_a_file, lineno, in_wnids, tree, order, todo, node,
                   wnid_sorted, args, idx, superclass_info, superclass_wnid,
                   class_ranges, ncalls>>

MaxMutations == 2

\* The set the caller sees through ret.
ret_value == IF ret.kind = "ref" THEN tree[ret.node].descendant_set ELSE ret.val

\* The caller's ret.add(x): on a reference it acts on the object referred to.
CallerAdd ==
    /\ pc = "ready"
    /\ ret.kind # "none"
    /\ ncalls < MaxMutations
    /\ \E x \in ArgWnids :
         IF ret.kind = "ref"
         THEN /\ tree' = [tree EXCEPT ![ret.node].descendant_set = @ \cup {x}]
              /\ UNCHANGED ret
         ELSE /\ ret' = [ret EXCEPT !.val = @ \cup {wnid_to_num[x]}]
              /\ UNCHANGED tree
    /\ ncalls' = ncalls + 1
    /\ UNCHANGED <<pc, is_a_file, lineno, in_wnids, order, todo, node, wnid_sorted,
                   args, idx, superclass_info, superclass_wnid, class_ranges>>

\* The caller's ret.clear().
CallerClear ==
    /\ pc = "ready"
    /\ ret.kind # "none"
    /\ ncalls < MaxMutations
    /\ IF ret.kind = "ref"
       THEN /\ tree' = [tree EXCEPT ![ret.node].descendant_set = {}]
            /\ UNCHANGED ret
       ELSE /\ ret' = [ret EXCEPT !.val = {}]
            /\ UNCHANGED tree
    /\ ncalls' = ncalls + 1
    /\ UNCHANGED <<pc, is_a_file, lineno, in_wnids, order, todo, node, wnid_sorted,
                   args, idx, superclass_info, superclass_wnid, class_ranges>>

\* ------------------------------------------------------ specifications

InitBuild == InitWith(AnyFiles, AnyWnids) \/ InitWith(RankFiles, RankDirs)

NextBuild == IngestEdge \/ AnnotateLeaves \/ NextLeaf \/ WalkStep \/ FinishConstruction

\* Construction alone, over any small file and over the ranking files.
SpecBuild == InitBuild /\ [][NextBuild]_vars

Init == InitWith(SelFiles, SelDirs)

Next ==
    \/ NextBuild
    \/ CallGetSuperclasses
    \/ SelectStep
    \/ SelectEnd
    \/ CallGetSubclasses
    \/ SubclassStep
    \/ SubclassCheck

\* Construction, then one call of get_superclasses or of get_subclasses.
Spec == Init /\ [][Next]_vars

NextCaller == NextBuild \/ GetDescendants \/ CallerAdd \/ CallerClear

\* Construction, then a caller that changes what get_descendants gave it.
SpecCaller == Init /\ [][NextCaller]_vars

\* -------------------------------------------------------------- claims

\* The wnids of a running list of (wnid, ndesc_in) pairs.
info_wnids(info) == [i \in 1..Len(info) |-> info[i][1]]

\* No entry of wnids is an ancestor of another one.
antichain(t, wnids) ==
    \A i \in 1..Len(wnids), j \in 1..Len(wnids) :
        i # j => ~is_ancestor(t, wnids[i], wnids[j])

\* A call of get_superclasses is past its precondition.
Selecting ==
    /\ args.fn = "get_superclasses"
    /\ pc \notin {"ready", "AssertionError:192", "KeyError:144"}

\* C1: the running list of get_superclasses is an antichain of the ancestor
\* order after every round of the greedy loop, and so is the list returned.
C1_Antichain ==
    args.fn = "get_superclasses" =>
        /\ antichain(tree, info_wnids(superclass_info))
        /\ antichain(tree, superclass_wnid)

\* A returned selection of two superclasses from which an accepted candidate
\* was evicted on the way.
C1_Witness ==
    /\ args.fn = "get_superclasses"
    /\ pc = "returned"
    /\ Len(superclass_wnid) >= 2
    /\ args.ancestor_wnid = None
    /\ \E i \in 1..idx : wnid_sorted[i][1] \notin Range(superclass_wnid)

\* C2: on a list made by get_superclasses the assertion of line 249 never
\* fails: the class sets are pairwise disjoint, and together they hold no more
\* class numbers than the dataset has classes.
C2_Disjoint ==
    Selecting =>
        /\ pc # "AssertionError:249"
        /\ disjoint(class_ranges)
        /\ Cardinality(UNION Range(class_ranges)) <= Cardinality(in_wnids)

\* get_superclasses returned two superclasses with classes in each.
C2_Witness ==
    /\ args.fn = "get_superclasses"
    /\ pc = "returned"
    /\ Len(class_ranges) >= 2
    /\ \A i \in 1..Len(class_ranges) : class_ranges[i] # {}

\* C3: what get_subclasses returns for a non-empty list: with balanced every
\* set has exactly ndesc_min elements, the minimum descendant_count of the
\* list; without it each set has as many elements as its superclass's
\* descendant_count.
C3_Sizes ==
    pc = "returned" =>
        \A i \in 1..Len(class_ranges) :
            Cardinality(class_ranges[i]) =
                IF args.balanced THEN ndesc_min(tree, superclass_wnid)
                ELSE tree[superclass_wnid[i]].descendant_count

\* A balanced call of get_subclasses that had to cut a set down.
C3_Witness ==
    /\ args.fn = "get_subclasses"
    /\ pc = "returned"
    /\ args.balanced
    /\ Len(superclass_wnid) = 2
    /\ ndesc_min(tree, superclass_wnid) >= 1
    /\ \E i \in 1..2 : tree[superclass_wnid[i]].descendant_count
                          > ndesc_min(tree, superclass_wnid)

\* wnid_sorted lists every node of the tree once, with its two numbers.
rank_complete ==
    /\ Len(wnid_sorted) = Cardinality(DOMAIN tree)
    /\ {wnid_sorted[i][1] : i \in 1..Len(wnid_sorted)} = DOMAIN tree
    /\ \A i \in 1..Len(wnid_sorted) :
         /\ wnid_sorted[i][2] = tree[wnid_sorted[i][1]].descendant_count
         /\ wnid_sorted[i][3] = Cardinality(tree[wnid_sorted[i][1]].descendant_set)

\* C4 as amended: wnid_sorted is sorted by descendant_count descending as the
\* primary key and by the size of descendant_set descending as the secondary.
C4_CountThenSize ==
    pc = "ready" =>
        /\ rank_complete
        /\ \A i \in 1..Len(wnid_sorted), j \in 1..Len(wnid_sorted) :
             i < j =>
                \/ wnid_sorted[i][2] > wnid_sorted[j][2]
                \/ /\ wnid_sorted[i][2] = wnid_sorted[j][2]
                   /\ wnid_sorted[i][3] >= wnid_sorted[j][3]

\* C4 as claimed: wnid_sorted is sorted by the size of descendant_set
\* descending as the primary key and by descendant_count descending as the
\* secondary.
C4_SizeThenCount ==
    pc = "ready" =>
        \A i \in 1..Len(wnid_sorted), j \in 1..Len(wnid_sorted) :
            i < j =>
               \/ wnid_sorted[i][3] > wnid_sorted[j][3]
               \/ /\ wnid_sorted[i][3] = wnid_sorted[j][3]
                  /\ wnid_sorted[i][2] >= wnid_sorted[j][2]

\* A ranked ordering in which the two keys disagree about two entries.
C4_Witness ==
    /\ pc = "ready"
    /\ \E i \in 1..Len(wnid_sorted), j \in 1..Len(wnid_sorted) :
         /\ wnid_sorted[i][2] > wnid_sorted[j][2]
         /\ wnid_sorted[i][3] < wnid_sorted[j][3]

\* Two members of superclass_lowest that are nodes of the tree, one an
\* ancestor of the other.
lowest_has_chain ==
    \E s1 \in args.superclass_lowest \cap DOMAIN tree,
       s2 \in args.superclass_lowest \cap DOMAIN tree : is_ancestor(tree, s1, s2)

C6_TreeUntouched == [][ncalls' > ncalls => tree' = tree]_vars

RECURSIVE reaches_root(_, _, _)
\* Following parent references from w ends at a parentless node within k steps,
\* on nodes of the mapping all the way.
reaches_root(t, w, k) ==
    IF t[w].parent_wnid = None THEN TRUE
    ELSE IF k = 0 \/ t[w].parent_wnid \notin DOMAIN t THEN FALSE
    ELSE reaches_root(t, t[w].parent_wnid, k - 1)

\* C7: in a tree whose construction completed every parent reference is None
\* or a key of the tree, every chain of parent references ends at a parentless
\* node, and every node has descendant_count > 0 or a class number.
C7_TreeInvariant ==
    pc = "ready" =>
        \A w \in DOMAIN tree :
            /\ tree[w].parent_wnid = None \/ tree[w].parent_wnid \in DOMAIN tree
            /\ reaches_root(tree, w, Cardinality(DOMAIN tree))
            /\ tree[w].descendant_count > 0 \/ tree[w].class_num # -1

\* Construction completed on a file that re-parents "a" and closes the cycle
\* a -> b -> a.
C7_Witness ==
    /\ pc = "ready"
    /\ is_a_file = <<<<"c", "a">>, <<"a", "b">>, <<"b", "a">>>>
    /\ DOMAIN tree = {"c"}

\* C8: whatever the order in which the leaves were walked, each node's
\* descendant_count is the number of dataset leaves strictly below it and its
\* descendant_set the set of nodes strictly below it that are dataset leaves
\* or have one below them.
C8_OrderIndependent ==
    pc = "ready" =>
        \A w \in DOMAIN tree :
            /\ tree[w].descendant_count =
                 Cardinality({l \in in_wnids : is_ancestor(tree, w, l)})
            /\ tree[w].descendant_set =
                 {d \in DOMAIN tree :
                    /\ is_ancestor(tree, w, d)
                    /\ \/ d \in in_wnids
                       \/ \E l \in in_wnids : is_ancestor(tree, d, l)}

\* A completed tree with a dataset leaf below another dataset leaf, whose
\* walks share a path.
C8_Witness ==
    /\ pc = "ready"
    /\ \E l1 \in in_wnids, l2 \in in_wnids :
         /\ tree[l1].parent_wnid = l2
         /\ tree[l2].parent_wnid # None
         /\ tree[tree[l2].parent_wnid].descendant_count >= 2

\* One round of the greedy loop took the candidate cand.
took(cand) == pc = "select" /\ pc' = "select" /\ idx' = idx + 1
                /\ cand = wnid_sorted[idx + 1][1]

\* C9: when the candidate added in a round has an ancestor in the running
\* list, the candidate goes and the ancestor stays if the ancestor is in
\* superclass_lowest, and the ancestor goes and the candidate stays if not; a
\* member of superclass_lowest in the list is never evicted, and the list never
\* holds a node below such a member.
C9_LowestRule ==
    /\ [](args.fn = "get_superclasses" =>
            \A w \in Range(info_wnids(superclass_info)) \cup Range(superclass_wnid) :
                in_lowest(args, w) =>
                    \A d \in Range(info_wnids(superclass_info))
                               \cup Range(superclass_wnid) :
                        ~is_ancestor(tree, w, d))
    /\ [][\A cand \in DOMAIN tree :
            took(cand) =>
                \A w \in Range(info_wnids(superclass_info)) :
                    LET after == Range(info_wnids(superclass_info'))
                    IN /\ in_lowest(args, w) => w \in after
                       /\ (under_ancestor(tree, args, cand)
                             /\ is_ancestor(tree, w, cand)) =>
                            IF in_lowest(args, w)
                            THEN cand \notin after /\ w \in after
                            ELSE w \notin after /\ cand \in after]_vars

\* The candidate of the last round was below a member of superclass_lowest
\* that is in the running list, after an ancestor of that member was evicted.
C9_Witness ==
    /\ args.fn = "get_superclasses"
    /\ pc = "select"
    /\ idx >= 3
    /\ \E w \in Range(info_wnids(superclass_info)) :
         /\ in_lowest(args, w)
         /\ is_ancestor(tree, w, wnid_sorted[idx][1])
         /\ tree[w].parent_wnid # None

\* C10: a call of get_superclasses whose greedy loop accepted no candidate
\* ends in the ValueError of line 238, never in a result.
C10_EmptySelection ==
    (Selecting /\ pc # "select" /\ superclass_wnid = << >>) => pc = "ValueError:238"

\* The loop ran over the whole ranked ordering under a common ancestor that
\* is a node of the tree with nothing below it.
C10_Witness ==
    /\ args.fn = "get_superclasses"
    /\ pc = "ValueError:238"
    /\ args.n_superclasses >= 1
    /\ args.ancestor_wnid \in DOMAIN tree
    /\ idx = Len(wnid_sorted)
    /\ idx >= 3

====
